---- MODULE Spec2Model ----
(* State-machine model of src/app.py: a Flask marketplace with three tables   *)
(* (User, Item, ChatMessage), a cookie session per browser, and one action    *)
(* per request handler.                                                       *)
EXTENDS Integers, Sequences, FiniteSets, TLC

VARIABLES users, session, pending, items, messages, resp

vars == <<users, session, pending, items, messages, resp>>

----------------------------------------------------------------------------
(* Bounds and input sets *)

MaxItems == 2
MaxMsgs == 2

Clients == {"c1", "c2"}
Names == {"a", "b"}
Passwords == {"p", "q"}
Salts == {"s"}

Forms == [username : Names, email : Names, phone : Names, password : Passwords]

----------------------------------------------------------------------------
(* Password hashing: werkzeug stores the salt next to the digest; the digest *)
(* is a one-way function of (salt, password), kept symbolic.                 *)

generate_password_hash(password, salt) ==
    [salt |-> salt, digest |-> <<"H", salt, password>>]

check_password_hash(pwhash, password) ==
    pwhash.digest = <<"H", pwhash.salt, password>>

check_password(user, password) == check_password_hash(user.password_hash, password)

----------------------------------------------------------------------------
(* The User table *)

AdminUser ==
    [id |-> 1, username |-> "admin", email |-> "admin@example.com",
     phone |-> "0000000000", is_admin |-> TRUE,
     password_hash |-> generate_password_hash("adminpass", "s")]

UserIds == DOMAIN users

load_user(user_id) == IF user_id \in UserIds THEN user_id ELSE 0

current_user(c) == load_user(session[c])

is_authenticated(c) == current_user(c) # 0

Response(h, c, s) == [handler |-> h, client |-> c, status |-> s]

(* slip: the existence query looks at the username only *)
ExistingUsers_UsernameOnly(username, email, phone) ==
    {u \in UserIds : users[u].username = username}

(* register: the rows matched by the existence query *)
ExistingUsers(username, email, phone) ==
    {u \in UserIds : \/ users[u].username = username
                     \/ users[u].email = email
                     \/ users[u].phone = phone}

(* slip: only the username column is declared unique *)
UniqueViolation_UsernameOnly(f) ==
    \E u \in UserIds : users[u].username = f.username

(* unique=True on username, email and phone: what the store checks at insert *)
UniqueViolation(f) ==
    \E u \in UserIds : \/ users[u].username = f.username
                       \/ users[u].email = f.email
                       \/ users[u].phone = f.phone

NewUser(f, salt) ==
    [id |-> Len(users) + 1, username |-> f.username, email |-> f.email,
     phone |-> f.phone, is_admin |-> FALSE,
     password_hash |-> generate_password_hash(f.password, salt)]

(* register, up to the existence check *)
RegisterCheck(c, f) ==
    /\ pending[c] = <<>>
    /\ IF is_authenticated(c)
       THEN /\ resp' = Response("register", c, "redirect_home")
            /\ UNCHANGED pending
       ELSE IF ExistingUsers(f.username, f.email, f.phone) # {}
       THEN /\ resp' = Response("register", c, "DuplicateIdentity")
            /\ UNCHANGED pending
       ELSE /\ pending' = [pending EXCEPT ![c] = <<f>>]
            /\ resp' = Response("register", c, "checked")
    /\ UNCHANGED <<users, session, items, messages>>

(* register, add + commit: the store refuses a row that repeats a unique column *)
InsertUser(c, f) ==
    IF UniqueViolation(f)
    THEN /\ resp' = Response("register", c, "IntegrityError")
         /\ UNCHANGED users
    ELSE \E salt \in Salts :
         /\ users' = Append(users, NewUser(f, salt))
         /\ resp' = Response("register", c, "redirect_login")

RegisterInsert(c) ==
    /\ pending[c] # <<>>
    /\ pending' = [pending EXCEPT ![c] = <<>>]
    /\ InsertUser(c, pending[c][1])
    /\ UNCHANGED <<session, items, messages>>

(* register, run from check to commit with no other request in between *)
Register(c, f) ==
    /\ pending[c] = <<>>
    /\ IF is_authenticated(c)
       THEN /\ resp' = Response("register", c, "redirect_home")
            /\ UNCHANGED users
       ELSE IF ExistingUsers(f.username, f.email, f.phone) # {}
       THEN /\ resp' = Response("register", c, "DuplicateIdentity")
            /\ UNCHANGED users
       ELSE InsertUser(c, f)
    /\ UNCHANGED <<pending, session, items, messages>>

(* login: first() of the rows matching the identifier in any column *)
LoginMatches(login_input) ==
    {u \in UserIds : \/ users[u].username = login_input
                     \/ users[u].email = login_input
                     \/ users[u].phone = login_input}

Login(c, login_input, password) ==
    /\ pending[c] = <<>>
    /\ IF is_authenticated(c)
       THEN /\ resp' = Response("login", c, "redirect_home")
            /\ UNCHANGED session
       ELSE IF LoginMatches(login_input) = {}
       THEN /\ resp' = Response("login", c, "InvalidCredentials")
            /\ UNCHANGED session
       ELSE \E user \in LoginMatches(login_input) :
            IF check_password(users[user], password)
            THEN /\ session' = [session EXCEPT ![c] = user]
                 /\ resp' = Response("login", c, "logged_in")
            ELSE /\ resp' = Response("login", c, "InvalidCredentials")
                 /\ UNCHANGED session
    /\ UNCHANGED <<users, pending, items, messages>>

Logout(c) ==
    /\ pending[c] = <<>>
    /\ IF is_authenticated(c)
       THEN /\ session' = [session EXCEPT ![c] = 0]
            /\ resp' = Response("logout", c, "redirect_home")
       ELSE /\ resp' = Response("logout", c, "redirect_login")
            /\ UNCHANGED session
    /\ UNCHANGED <<users, pending, items, messages>>

----------------------------------------------------------------------------
(* Text inputs are sequences of characters; int() and float() are modelled  *)
(* on them: an optional sign followed by one or more decimal digits, any    *)
(* other text raising ValueError.  Fractions, exponents and padding, which  *)
(* Python also reads, are not among the inputs used here.                   *)

Digits == <<"0", "1", "2", "3", "4", "5", "6", "7", "8", "9">>

IsDigit(ch) == \E d \in 1..10 : Digits[d] = ch

DigitValue(ch) == (CHOOSE d \in 1..10 : Digits[d] = ch) - 1

RECURSIVE DigitsValue(_)
DigitsValue(s) ==
    IF s = <<>> THEN 0
    ELSE 10 * DigitsValue(SubSeq(s, 1, Len(s) - 1)) + DigitValue(s[Len(s)])

AllDigits(s) == s # <<>> /\ \A k \in 1..Len(s) : IsDigit(s[k])

ParseError == [ok |-> FALSE, v |-> 0]

ParseNumber(s) ==
    IF AllDigits(s) THEN [ok |-> TRUE, v |-> DigitsValue(s)]
    ELSE IF Len(s) >= 2 /\ s[1] = "-" /\ AllDigits(Tail(s))
    THEN [ok |-> TRUE, v |-> 0 - DigitsValue(Tail(s))]
    ELSE IF Len(s) >= 2 /\ s[1] = "+" /\ AllDigits(Tail(s))
    THEN [ok |-> TRUE, v |-> DigitsValue(Tail(s))]
    ELSE ParseError

(* order_id.split('_')[-1] *)
RECURSIVE LastSegment(_)
LastSegment(s) ==
    IF s = <<>> THEN <<>>
    ELSE IF s[Len(s)] = "_" THEN <<>>
    ELSE Append(LastSegment(SubSeq(s, 1, Len(s) - 1)), s[Len(s)])

----------------------------------------------------------------------------
(* The Item table and its handlers *)

ItemIds == DOMAIN items

(* slip: the listing is attributed to the bootstrap account *)
NewItem_AdminSeller(price, seller_id) ==
    [id |-> Len(items) + 1, price |-> price, seller_id |-> 1,
     is_sold |-> FALSE]

NewItem(price, seller_id) ==
    [id |-> Len(items) + 1, price |-> price, seller_id |-> seller_id,
     is_sold |-> FALSE]

(* sell_item (POST), behind login_required *)
SellItem(c, price_text) ==
    /\ pending[c] = <<>>
    /\ IF ~is_authenticated(c)
       THEN /\ resp' = Response("sell_item", c, "redirect_login")
            /\ UNCHANGED items
       ELSE LET price == ParseNumber(price_text) IN
            IF ~price.ok
            THEN /\ resp' = Response("sell_item", c, "ValueError")
                 /\ UNCHANGED items
            ELSE /\ Len(items) < MaxItems
                 /\ items' = Append(items, NewItem(price.v, current_user(c)))
                 /\ resp' = Response("sell_item", c, "listed")
    /\ UNCHANGED <<users, session, pending, messages>>

(* home: Item.query.filter_by(is_sold=False) *)
home == SelectSeq(items, LAMBDA it : ~it.is_sold)

(* my_items: Item.query.filter_by(seller_id=current_user.id) *)
my_items(seller) == SelectSeq(items, LAMBDA it : it.seller_id = seller)

NoField == <<"<missing>">>

(* slip: the callback flips the flag instead of setting it *)
MarkSold_Toggle(item_id) ==
    [items EXCEPT ![item_id].is_sold = ~items[item_id].is_sold]

(* slip: the callback marks every item sold *)
MarkSold_All(item_id) ==
    [k \in DOMAIN items |-> [items[k] EXCEPT !.is_sold = TRUE]]

MarkSold(item_id) == [items EXCEPT ![item_id].is_sold = TRUE]

(* paytm_redirect (POST), open to any client *)
PaytmRedirect(c, status, order_id) ==
    /\ pending[c] = <<>>
    /\ IF status = "TXN_SUCCESS"
       THEN IF order_id = NoField
            THEN /\ resp' = Response("paytm_redirect", c, "AttributeError")
                 /\ UNCHANGED items
            ELSE LET item_id == ParseNumber(LastSegment(order_id)) IN
                 IF ~item_id.ok
                 THEN /\ resp' = Response("paytm_redirect", c, "ValueError")
                      /\ UNCHANGED items
                 ELSE IF item_id.v \notin ItemIds
                 THEN /\ resp' = Response("paytm_redirect", c, "NotFound")
                      /\ UNCHANGED items
                 ELSE /\ items' = MarkSold(item_id.v)
                      /\ resp' = Response("paytm_redirect", c, "payment_successful")
       ELSE /\ resp' = Response("paytm_redirect", c, "payment_failed")
            /\ UNCHANGED items
    /\ UNCHANGED <<users, session, pending, messages>>

----------------------------------------------------------------------------
(* The ChatMessage table and its handlers.  A JSON field is null, a string  *)
(* or an integer.                                                           *)

JNull == [t |-> "null", s |-> <<>>, n |-> 0]
JStr(s) == [t |-> "str", s |-> s, n |-> 0]
JInt(n) == [t |-> "int", s |-> <<>>, n |-> n]

(* slip: the handler tests the fields against None only *)
Truthy_NotNull(j) == j.t # "null"

(* Python truthiness of a JSON value *)
Truthy(j) ==
    CASE j.t = "null" -> FALSE
      [] j.t = "str" -> j.s # <<>>
      [] j.t = "int" -> j.n # 0

(* what an INTEGER column keeps of a bound value: text that reads as an     *)
(* integer is stored as that integer, other text is stored as it is         *)
IntegerColumn(j) ==
    IF j.t = "str" /\ ParseNumber(j.s).ok THEN JInt(ParseNumber(j.s).v) ELSE j

NewMessage(from_user_id, to_user_id, message, timestamp) ==
    [id |-> Len(messages) + 1, from_user_id |-> from_user_id,
     to_user_id |-> IntegerColumn(to_user_id), message |-> message.s,
     timestamp |-> timestamp]

(* send_message (POST, JSON), behind login_required; the store does not     *)
(* enforce the foreign keys (SQLite leaves them off unless asked)           *)
SendMessage(c, to_user_id, message, timestamp) ==
    /\ pending[c] = <<>>
    /\ IF ~is_authenticated(c)
       THEN /\ resp' = Response("send_message", c, "redirect_login")
            /\ UNCHANGED messages
       ELSE IF Truthy(to_user_id) /\ Truthy(message)
       THEN /\ Len(messages) < MaxMsgs
            /\ messages' = Append(messages,
                   NewMessage(current_user(c), to_user_id, message, timestamp))
            /\ resp' = Response("send_message", c, "success_200")
       ELSE /\ resp' = Response("send_message", c, "error_400")
            /\ UNCHANGED messages
    /\ UNCHANGED <<users, session, pending, items>>

(* ORDER BY timestamp over rows met in rowid order; rows with equal         *)
(* timestamps come out in an order the store picks, the same for every      *)
(* query over the same rows: tie is that pick                               *)
TieOrders == {"first_in", "last_in"}

Before(m, n, tie) ==
    \/ m.timestamp < n.timestamp
    \/ /\ m.timestamp = n.timestamp
       /\ IF tie = "first_in" THEN m.id < n.id ELSE m.id > n.id

RECURSIVE InsertSorted(_, _, _)
InsertSorted(sorted, m, tie) ==
    IF sorted = <<>> THEN <<m>>
    ELSE IF Before(m, Head(sorted), tie) THEN <<m>> \o sorted
    ELSE <<Head(sorted)>> \o InsertSorted(Tail(sorted), m, tie)

RECURSIVE OrderByTimestamp(_, _)
OrderByTimestamp(rows, tie) ==
    IF rows = <<>> THEN <<>>
    ELSE InsertSorted(OrderByTimestamp(SubSeq(rows, 1, Len(rows) - 1), tie),
                      rows[Len(rows)], tie)

(* slip: the query keeps only what the current user sent *)
InConversation_OneWay(m, me, other) ==
    m.from_user_id = me /\ m.to_user_id = JInt(other)

InConversation(m, me, other) ==
    \/ (m.from_user_id = me /\ m.to_user_id = JInt(other))
    \/ (m.from_user_id = other /\ m.to_user_id = JInt(me))

(* get_messages / chat_with_seller: the rows between the current user and   *)
(* the other user, ordered by timestamp                                     *)
get_messages(me, other, tie) ==
    OrderByTimestamp(SelectSeq(messages, LAMBDA m : InConversation(m, me, other)), tie)

----------------------------------------------------------------------------

Init ==
    /\ users = <<AdminUser>>
    /\ session = [c \in Clients |-> 0]
    /\ pending = [c \in Clients |-> <<>>]
    /\ items = <<>>
    /\ messages = <<>>
    /\ resp = Response("none", "c1", "none")

Identifiers == Names \cup {"admin"}
LoginPasswords == Passwords \cup {"adminpass"}

DoRegisterCheck == \E c \in Clients : \E f \in Forms : RegisterCheck(c, f)
DoRegisterInsert == \E c \in Clients : RegisterInsert(c)
DoLogin == \E c \in Clients : \E i \in Identifiers : \E p \in LoginPasswords : Login(c, i, p)
DoLogout == \E c \in Clients : Logout(c)

NextAuth == DoRegisterCheck \/ DoRegisterInsert \/ DoLogin \/ DoLogout

SpecAuth == Init /\ [][NextAuth]_vars

(* Listing and payment, with registration run without interleaving *)
SellerForms == {[username |-> "a", email |-> "a", phone |-> "a", password |-> "p"]}
SellerLogins == {<<"a", "p">>, <<"admin", "adminpass">>, <<"a", "q">>}
PriceTexts == {<<"5">>, <<"-", "5">>, <<"x">>, <<>>}
OrderIds ==
    {<<"1">>, <<"o", "_", "1">>, <<"o", "_", "2">>, <<"o", "_", "3">>,
     <<"1", "_", "2">>, <<"0", "1">>, <<"o">>, <<"1", "_">>, NoField}
Payers == {"c2"}
Statuses == {"TXN_SUCCESS", "TXN_FAILURE"}

DoRegister == \E c \in Clients : \E f \in SellerForms : Register(c, f)
DoSellerLogin == \E c \in Clients : \E l \in SellerLogins : Login(c, l[1], l[2])
DoSellerLogout == \E c \in Clients : Logout(c)
DoSellItem == \E c \in Clients : \E p \in PriceTexts : SellItem(c, p)
DoPaytmRedirect ==
    \E c \in Payers : \E st \in Statuses : \E o \in OrderIds : PaytmRedirect(c, st, o)

NextMarket == DoRegister \/ DoSellerLogin \/ DoSellerLogout \/ DoSellItem \/ DoPaytmRedirect

SpecMarket == Init /\ [][NextMarket]_vars

(* Messaging *)
ToValues == {JNull, JStr(<<>>), JStr(<<"2">>)} \cup {JInt(n) : n \in 0..3}
Bodies == {JNull, JStr(<<>>), JStr(<<"h">>)}
Times == {1, 2}
ChatClients == {"c1"}

DoSendMessage ==
    \E c \in ChatClients : \E to \in ToValues : \E b \in Bodies : \E ts \in Times :
        SendMessage(c, to, b, ts)

DoChatRegister == \E c \in ChatClients : \E f \in SellerForms : Register(c, f)
DoChatLogin == \E c \in ChatClients : \E l \in SellerLogins : Login(c, l[1], l[2])
DoChatLogout == \E c \in ChatClients : Logout(c)

NextChat == DoChatRegister \/ DoChatLogin \/ DoChatLogout \/ DoSendMessage

SpecChat == Init /\ [][NextChat]_vars

----------------------------------------------------------------------------
(* Claims about registration, login and logout (stated for SpecAuth) *)

(* the form repeats the username, email or phone of a stored user *)
IdentityTaken(f) ==
    \E u \in UserIds : \/ users[u].username = f.username
                       \/ users[u].email = f.email
                       \/ users[u].phone = f.phone

Rejected(status) == status = "DuplicateIdentity"

(* C1 as stated: every POST /register repeating a stored username, email or *)
(* phone is answered with DuplicateIdentity and changes no table.           *)
C1_EveryAttemptRejected ==
    [][\A c \in Clients : \A f \in Forms :
         (IdentityTaken(f) /\ RegisterCheck(c, f))
           => (Rejected(resp'.status) /\ UNCHANGED <<users, items, messages>>)]_vars

(* C1 amended: a POST /register from a session with no authenticated user   *)
(* that repeats a stored username, email or phone is answered with          *)
(* DuplicateIdentity and changes no table (no user is added).               *)
C1_AnonymousAttemptRejected ==
    [][\A c \in Clients : \A f \in Forms :
         (~is_authenticated(c) /\ IdentityTaken(f) /\ RegisterCheck(c, f))
           => (Rejected(resp'.status) /\ pending'[c] = <<>>
               /\ UNCHANGED <<users, items, messages>>)]_vars

(* a registered (non-bootstrap) user exists and a later attempt was rejected *)
C1_Witness ==
    /\ Len(users) >= 2
    /\ resp.handler = "register"
    /\ resp.status = "DuplicateIdentity"
    /\ session[resp.client] = 0

(* C2: for every stored user U, an identifier equal to U's username, email  *)
(* or phone together with U's password logs the session in as U; the        *)
(* session then keeps U's identity until logout, which clears it.           *)
C2_LoginBindsUser ==
    [][/\ \A c \in Clients : \A i \in Identifiers : \A p \in LoginPasswords :
            \A U \in UserIds :
              (/\ Login(c, i, p)
               /\ ~is_authenticated(c)
               /\ i \in {users[U].username, users[U].email, users[U].phone}
               /\ check_password(users[U], p))
                => (session'[c] = U /\ resp'.status = "logged_in")
       /\ \A c \in Clients :
            (session[c] # 0 /\ session'[c] # session[c])
                => (resp'.handler = "logout" /\ session'[c] = 0)]_vars

UniqueUsers ==
    \A u, v \in UserIds :
        u # v => /\ users[u].username # users[v].username
                 /\ users[u].email # users[v].email
                 /\ users[u].phone # users[v].phone

(* C5: no two stored users share a username, an email or a phone, also when *)
(* registrations interleave between check and insert; an insert that would  *)
(* duplicate a field fails on the unique constraint and adds no user.       *)
C5_UniqueIdentity ==
    /\ []UniqueUsers
    /\ [][\A c \in Clients :
            (pending[c] # <<>> /\ IdentityTaken(pending[c][1]) /\ RegisterInsert(c))
              => (resp'.status = "IntegrityError" /\ users' = users)]_vars

(* a racing insert was refused by the store although its check had passed *)
C5_Witness ==
    /\ resp.handler = "register"
    /\ resp.status = "IntegrityError"
    /\ Len(users) >= 2

----------------------------------------------------------------------------
(* Claims about listings and the payment callback (stated for SpecMarket) *)

(* an ORDERID that names item i the way the payment page builds it *)
OrderFor(i) == <<"o", "_", Digits[i + 1]>>

(* ORDERIDs whose last underscore-separated segment is the id i *)
OrdersNaming(i) ==
    {<<Digits[i + 1]>>, OrderFor(i), <<"1", "_", Digits[i + 1]>>,
     <<"2", "_", Digits[i + 1]>>} \cap OrderIds

IdsOf(seq) == {seq[k].id : k \in DOMAIN seq}

(* C3: is_sold of an item only changes from false to true and only in the  *)
(* payment callback; items are never removed; a successful callback for an *)
(* item that is already sold changes nothing that is stored.               *)
C3_SoldIsPermanent ==
    [][/\ \/ items' = items
          \/ /\ ItemIds \subseteq DOMAIN items'
             /\ \A i \in ItemIds :
                  (items'[i].is_sold # items[i].is_sold)
                    => (/\ ~items[i].is_sold
                        /\ items'[i].is_sold
                        /\ resp'.handler = "paytm_redirect")
       /\ \/ UNCHANGED <<users, session, items, messages>>
             /\ resp'.status = "payment_successful"
          \/ \A c \in Payers : \A i \in ItemIds :
               ~(items[i].is_sold /\ PaytmRedirect(c, "TXN_SUCCESS", OrderFor(i)))]_vars

(* an item was sold and a later listing left it sold *)
C3_Witness ==
    /\ Len(items) = 2
    /\ items[1].is_sold
    /\ resp.handler = "sell_item"
    /\ resp.status = "listed"

(* C4: a TXN_SUCCESS callback whose ORDERID ends in the id of an existing  *)
(* item marks exactly that item sold and the home listing (the unsold      *)
(* items) no longer shows it; any other STATUS changes nothing stored.     *)
C4_CallbackMarksSold ==
    [][resp'.handler = "paytm_redirect" =>
        /\ \A i \in ItemIds :
             \/ /\ items' = [items EXCEPT ![i].is_sold = TRUE]
                /\ i \notin IdsOf(home')
                /\ IdsOf(home') = {k \in DOMAIN items' : ~items'[k].is_sold}
             \/ \A c \in Payers : \A o \in OrdersNaming(i) :
                  ~PaytmRedirect(c, "TXN_SUCCESS", o)
        /\ \/ UNCHANGED <<users, session, items, messages>>
           \/ \A c \in Payers : \A st \in Statuses \ {"TXN_SUCCESS"} :
                \A o \in OrderIds : ~PaytmRedirect(c, st, o)]_vars

(* the second of two items was paid for, the first is still listed *)
C4_Witness ==
    /\ Len(items) = 2
    /\ items[2].is_sold
    /\ ~items[1].is_sold
    /\ IdsOf(home) = {1}
    /\ resp.handler = "paytm_redirect"
    /\ resp.status = "payment_successful"

(* C9: every stored item has a non-negative price *)
C9_NonNegativePrice ==
    \A i \in ItemIds : items[i].price >= 0

(* C10: every item's seller is an existing user, the one logged in on the  *)
(* session that created the listing; an anonymous session creates no item; *)
(* my_items of a seller is exactly the items of that seller, sold or not.  *)
C10_SellerIsSessionUser ==
    /\ [](\A i \in ItemIds : items[i].seller_id \in UserIds)
    /\ [](\A u \in UserIds :
             /\ IdsOf(my_items(u)) = {i \in ItemIds : items[i].seller_id = u}
             /\ Len(my_items(u)) = Cardinality(IdsOf(my_items(u))))
    /\ [][/\ \A i \in ItemIds :
               i \in DOMAIN items' /\ items'[i].seller_id = items[i].seller_id
          /\ Len(items') # Len(items)
               => (/\ Len(items') = Len(items) + 1
                   /\ resp'.handler = "sell_item"
                   /\ session[resp'.client] \in UserIds
                   /\ items'[Len(items')].seller_id = session[resp'.client])
          /\ \/ items' = items /\ resp'.status = "redirect_login"
             \/ \A c \in Clients : \A p \in PriceTexts :
                  ~(session[c] = 0 /\ SellItem(c, p))]_vars

(* two sellers have one listing each, one of them sold *)
C10_Witness ==
    /\ Len(items) = 2
    /\ items[1].seller_id # items[2].seller_id
    /\ items[1].is_sold
    /\ IdsOf(my_items(items[1].seller_id)) = {1}

----------------------------------------------------------------------------
(* Claims about messaging (stated for SpecChat) *)

MissingOrEmpty(j) == j = JNull \/ j = JStr(<<>>)

(* C6: a logged-in send_message whose to_user_id or message is missing or  *)
(* empty is answered with status error / 400 and stores no message.        *)
C6_EmptyFieldsRejected ==
    [][\/ resp'.status = "error_400" /\ messages' = messages
       \/ \A c \in ChatClients : \A to \in ToValues : \A b \in Bodies : \A ts \in Times :
            ~(/\ MissingOrEmpty(to) \/ MissingOrEmpty(b)
              /\ is_authenticated(c)
              /\ SendMessage(c, to, b, ts))]_vars

(* a logged-in sender got the 400 answer after a message had been stored *)
C6_Witness ==
    /\ resp.handler = "send_message"
    /\ resp.status = "error_400"
    /\ session[resp.client] # 0
    /\ Len(messages) >= 1

(* C7: sender and recipient of every stored message are existing users *)
C7_MessagesReferenceUsers ==
    \A k \in DOMAIN messages :
        /\ messages[k].from_user_id \in UserIds
        /\ messages[k].to_user_id.t = "int"
        /\ messages[k].to_user_id.n \in UserIds

Between(A, B) ==
    {k \in DOMAIN messages :
        \/ (messages[k].from_user_id = A /\ messages[k].to_user_id = JInt(B))
        \/ (messages[k].from_user_id = B /\ messages[k].to_user_id = JInt(A))}

Ascending(seq) ==
    \A k \in 1..(Len(seq) - 1) : seq[k].timestamp <= seq[k + 1].timestamp

(* C8: for users A and B the conversation read by A with B equals the one  *)
(* read by B with A: exactly the messages from A to B and from B to A, each *)
(* once, in ascending timestamp order (A = B and equal timestamps included). *)
C8_ConversationSymmetric ==
    \A A \in UserIds : \A B \in UserIds : \A tie \in TieOrders :
        LET conv == get_messages(A, B, tie) IN
        /\ conv = get_messages(B, A, tie)
        /\ IdsOf(conv) = Between(A, B)
        /\ Len(conv) = Cardinality(Between(A, B))
        /\ \A k \in DOMAIN conv : conv[k] = messages[conv[k].id]
        /\ Ascending(conv)

(* both directions between users 1 and 2, the later row carrying the      *)
(* earlier timestamp                                                       *)
C8_Witness ==
    /\ Len(users) = 2
    /\ Len(messages) = 2
    /\ messages[1].from_user_id = 1 /\ messages[1].to_user_id = JInt(2)
    /\ messages[2].from_user_id = 2 /\ messages[2].to_user_id = JInt(1)
    /\ messages[1].timestamp > messages[2].timestamp
    /\ get_messages(1, 2, "first_in") = <<messages[2], messages[1]>>

====
